---- MODULE Spec2Model ----
(***************************************************************************)
(* A model of src/data/Graph.ts: the node/edge container of echarts.       *)
(*                                                                         *)
(* GraphNode and GraphEdge objects live in two heaps (nodeObjs, edgeObjs); *)
(* an object's identity is its position in the heap, so that "the same     *)
(* object" and "an object of another Graph" are things the model can tell  *)
(* apart.  A Graph is a record of the fields of class Graph.  Ids are      *)
(* strings and the keys of _nodesMap/_edgesMap are built by concatenation, *)
(* as in the source.                                                       *)
(***************************************************************************)
EXTENDS Integers, Sequences, FiniteSets, TLC

VARIABLES
    nodeObjs,   \* heap of GraphNode objects, a node reference is an index
    edgeObjs,   \* heap of GraphEdge objects, an edge reference is an index
    graphs,     \* the Graph instances, a graph reference is an index
    call,       \* the last call made on a Graph, its resolved arguments and its result
    created,    \* history: for each graph and id, the first addNode that returned a node
    linked,     \* history: the addEdge calls that returned an edge
    trav,       \* the breadthFirstTraverse in flight (or finished), if any
    store       \* the item visuals and layouts the record tables hold

vars == <<nodeObjs, edgeObjs, graphs, call, created, linked, trav, store>>

-----------------------------------------------------------------------------
(* Bounds of the model *)

MaxNodes == 3       \* nodes of one Graph
MaxEdges == 2       \* edges of one Graph
MaxGraphs == 2      \* Graph instances (the first one and its clones)
MaxNodeObjs == 4    \* GraphNode objects created, over all graphs
MaxEdgeObjs == 2    \* GraphEdge objects created, over all graphs
MaxWrites == 1      \* item visuals and layouts written to the tables
MaxNested == 1      \* traversals started by the callbacks of one traversal

-----------------------------------------------------------------------------
(* Values *)

\* undefined, as a reference: no node, no edge
Nothing == 0

\* An optional argument is <<>> when absent and <<v>> when given.
Absent == <<>>
Given(v) == <<v>>

DigitChar == <<"0", "1", "2", "3", "4", "5", "6", "7", "8", "9">>

RECURSIVE NatToString(_)
NatToString(n) ==
    IF n < 10 THEN DigitChar[n + 1]
    ELSE NatToString(n \div 10) \o DigitChar[(n % 10) + 1]

\* '' + dataIndex of addNode, dataIndex an optional number
NumberToString(dataIndex) ==
    IF dataIndex = Absent THEN "undefined"
    ELSE IF dataIndex[1] < 0 THEN "-" \o NatToString(0 - dataIndex[1])
    ELSE NatToString(dataIndex[1])

\* function generateNodeKey(id)
generateNodeKey(id) == "_EC_" \o id

\* A Dictionary ({} with string keys): reading a missing key gives undefined.
EmptyDictionary == <<>>
Lookup(map, key) == IF key \in DOMAIN map THEN map[key] ELSE Nothing
Store(map, key, value) == (key :> value) @@ map

\* The endpoint arguments of addEdge: GraphNode | number | string.
NodeArg(n) == [t |-> "node", n |-> n, s |-> ""]
NumArg(k) == [t |-> "num", n |-> k, s |-> ""]
StrArg(s) == [t |-> "str", n |-> 0, s |-> s]
UndefinedArg == [t |-> "undefined", n |-> 0, s |-> ""]

-----------------------------------------------------------------------------
(* class GraphNode, class GraphEdge, class Graph *)

\* GraphNode.constructor; __visited is left undefined, which reads as false
GraphNode(id, dataIndex) ==
    [id |-> id,
     dataIndex |-> IF dataIndex = Absent THEN -1 ELSE dataIndex[1],
     edges |-> <<>>, inEdges |-> <<>>, outEdges |-> <<>>,
     hostGraph |-> Nothing,
     visited |-> FALSE]

\* GraphEdge.constructor
GraphEdge(n1, n2, dataIndex) ==
    [node1 |-> n1, node2 |-> n2,
     dataIndex |-> IF dataIndex = Absent THEN -1 ELSE dataIndex[1],
     hostGraph |-> Nothing]

\* Graph.constructor; data and edgeData are undefined until the caller binds
\* them to tables
Graph(directed) ==
    [directed |-> directed,
     nodes |-> <<>>, edges |-> <<>>,
     nodesMap |-> EmptyDictionary, edgesMap |-> EmptyDictionary,
     data |-> Absent, edgeData |-> Absent]

\* The objects and graphs of a state, as one value the operations transform.
World == [nodeObjs |-> nodeObjs, edgeObjs |-> edgeObjs, graphs |-> graphs]

\* Graph.isDirected
isDirected(w, g) == w.graphs[g].directed

\* Graph.addNode: the world after the call and the node returned
AddNodeSkipDuplicateCheck(w, g, idArg, dataIndex) ==
    LET id == IF idArg = Absent THEN NumberToString(dataIndex) ELSE idArg[1]
        key == generateNodeKey(id)
        oid == Len(w.nodeObjs) + 1
        node == [GraphNode(id, dataIndex) EXCEPT !.hostGraph = g]
    IN  [w |-> [w EXCEPT !.nodeObjs = Append(@, node),
                         !.graphs[g].nodes = Append(@, oid),
                         !.graphs[g].nodesMap = Store(@, key, oid)],
         ret |-> oid]

AddNodeDuplicateResetsIndex(w, g, idArg, dataIndex) ==
    LET id == IF idArg = Absent THEN NumberToString(dataIndex) ELSE idArg[1]
        key == generateNodeKey(id)
        old == Lookup(w.graphs[g].nodesMap, key)
    IN  IF old # Nothing
        THEN [w |-> [w EXCEPT !.nodeObjs[old].dataIndex =
                                  IF dataIndex = Absent THEN -1 ELSE dataIndex[1]],
              ret |-> Nothing]
        ELSE AddNodeSkipDuplicateCheck(w, g, idArg, dataIndex)

addNode(w, g, idArg, dataIndex) ==
    LET id == IF idArg = Absent THEN NumberToString(dataIndex) ELSE idArg[1]
        nodesMap == w.graphs[g].nodesMap
        key == generateNodeKey(id)
    IN  IF Lookup(nodesMap, key) # Nothing
        THEN [w |-> w, ret |-> Nothing]
        ELSE LET oid == Len(w.nodeObjs) + 1
                 node == [GraphNode(id, dataIndex) EXCEPT !.hostGraph = g]
             IN  [w |-> [w EXCEPT !.nodeObjs = Append(@, node),
                                  !.graphs[g].nodes = Append(@, oid),
                                  !.graphs[g].nodesMap = Store(@, key, oid)],
                  ret |-> oid]

\* Graph.getNodeById
getNodeById(w, g, id) == Lookup(w.graphs[g].nodesMap, generateNodeKey(id))

\* Lines 114-126 of addEdge for one endpoint: a number indexes this.nodes,
\* and whatever is not a GraphNode after that is looked up as an id
\* (an index out of range gives undefined, looked up as the id 'undefined').
ResolveEndpoint(w, g, arg) ==
    LET nodes == w.graphs[g].nodes
        byIndex == IF arg.t = "num"
                   THEN IF arg.n >= 0 /\ arg.n < Len(nodes)
                        THEN NodeArg(nodes[arg.n + 1])
                        ELSE UndefinedArg
                   ELSE arg
    IN  IF byIndex.t = "node" THEN byIndex.n
        ELSE Lookup(w.graphs[g].nodesMap,
                    generateNodeKey(IF byIndex.t = "str" THEN byIndex.s
                                    ELSE "undefined"))

\* The key of _edgesMap for the pair of ids
EdgeKey(id1, id2) == id1 \o "-" \o id2

\* Lines 137-152 of addEdge: create the edge between the resolved nodes
LinkNodes(w, g, n1, n2, dataIndex) ==
    LET eid == Len(w.edgeObjs) + 1
        edge == [GraphEdge(n1, n2, dataIndex) EXCEPT !.hostGraph = g]
        key == EdgeKey(w.nodeObjs[n1].id, w.nodeObjs[n2].id)
        w1 == IF w.graphs[g].directed
              THEN [w EXCEPT !.nodeObjs[n1].outEdges = Append(@, eid)]
              ELSE w
        w2 == IF w.graphs[g].directed
              THEN [w1 EXCEPT !.nodeObjs[n2].inEdges = Append(@, eid)]
              ELSE w1
        w3 == [w2 EXCEPT !.nodeObjs[n1].edges = Append(@, eid)]
        w4 == IF n1 # n2
              THEN [w3 EXCEPT !.nodeObjs[n2].edges = Append(@, eid)]
              ELSE w3
    IN  [w |-> [w4 EXCEPT !.edgeObjs = Append(@, edge),
                          !.graphs[g].edges = Append(@, eid),
                          !.graphs[g].edgesMap = Store(@, key, eid)],
         ret |-> eid]

\* Graph.addEdge: the world after the call and the edge returned
addEdge(w, g, a1, a2, dataIndex) ==
    LET n1 == ResolveEndpoint(w, g, a1)
        n2 == ResolveEndpoint(w, g, a2)
    IN  IF n1 = Nothing \/ n2 = Nothing
        THEN [w |-> w, ret |-> Nothing]
        ELSE IF Lookup(w.graphs[g].edgesMap,
                       EdgeKey(w.nodeObjs[n1].id, w.nodeObjs[n2].id)) # Nothing
             THEN [w |-> w, ret |-> Nothing]
             ELSE LinkNodes(w, g, n1, n2, dataIndex)

\* Graph.getEdge, each side a GraphNode or an id
getEdge(w, g, a1, a2) ==
    LET id1 == IF a1.t = "node" THEN w.nodeObjs[a1.n].id ELSE a1.s
        id2 == IF a2.t = "node" THEN w.nodeObjs[a2.n].id ELSE a2.s
        edgesMap == w.graphs[g].edgesMap
    IN  IF w.graphs[g].directed
        THEN Lookup(edgesMap, EdgeKey(id1, id2))
        ELSE IF Lookup(edgesMap, EdgeKey(id1, id2)) # Nothing
             THEN Lookup(edgesMap, EdgeKey(id1, id2))
             ELSE Lookup(edgesMap, EdgeKey(id2, id1))

\* Graph.eachNode: the calls cb(nodes[i], i) it makes, in order
RECURSIVE EachNodeFrom(_, _, _)
EachNodeFrom(w, g, i) ==
    LET nodes == w.graphs[g].nodes
    IN  IF i >= Len(nodes) THEN <<>>
        ELSE (IF w.nodeObjs[nodes[i + 1]].dataIndex >= 0
              THEN <<[obj |-> nodes[i + 1], idx |-> i]>>
              ELSE <<>>)
             \o EachNodeFrom(w, g, i + 1)

eachNode(w, g) == EachNodeFrom(w, g, 0)

\* Graph.eachEdge: the calls cb(edges[i], i) it makes, in order
EachEdgeOwnIndexOnly(w, g) ==
    LET edges == w.graphs[g].edges
        live == {i \in 0..(Len(edges) - 1) : w.edgeObjs[edges[i + 1]].dataIndex >= 0}
        nth(k) == CHOOSE i \in live : Cardinality({j \in live : j < i}) = k - 1
    IN  [k \in 1..Cardinality(live) |-> [obj |-> edges[nth(k) + 1], idx |-> nth(k)]]

RECURSIVE EachEdgeFrom(_, _, _)
EachEdgeFrom(w, g, i) ==
    LET edges == w.graphs[g].edges
    IN  IF i >= Len(edges) THEN <<>>
        ELSE (IF /\ w.edgeObjs[edges[i + 1]].dataIndex >= 0
                 /\ w.nodeObjs[w.edgeObjs[edges[i + 1]].node1].dataIndex >= 0
                 /\ w.nodeObjs[w.edgeObjs[edges[i + 1]].node2].dataIndex >= 0
              THEN <<[obj |-> edges[i + 1], idx |-> i]>>
              ELSE <<>>)
             \o EachEdgeFrom(w, g, i + 1)

eachEdge(w, g) == EachEdgeFrom(w, g, 0)

-----------------------------------------------------------------------------
(* The record tables (class List, bound to Graph.data and Graph.edgeData). *)
(* A table is the sequence of the storage indices of its live rows.        *)

\* List.count
count(list) == Len(list)

\* List.getRawIndex
getRawIndex(list, idx) == list[idx + 1]

\* List.filterSelf: keeps exactly the rows whose predicate is true; the
\* predicate is given as the function from a live position to its answer
RECURSIVE FilterFrom(_, _, _)
FilterFrom(list, keep, idx) ==
    IF idx >= Len(list) THEN <<>>
    ELSE (IF keep[idx] THEN <<list[idx + 1]>> ELSE <<>>)
         \o FilterFrom(list, keep, idx + 1)

filterSelf(list, keep) == FilterFrom(list, keep, 0)

\* for (i ...) objs[seq[i]].dataIndex = -1
RECURSIVE ResetDataIndex(_, _)
ResetDataIndex(objs, seq) ==
    IF seq = <<>> THEN objs
    ELSE ResetDataIndex([objs EXCEPT ![Head(seq)].dataIndex = -1], Tail(seq))

\* for (i = 0; i < list.count(); i++) objs[seq[list.getRawIndex(i)]].dataIndex = i
RECURSIVE AssignDataIndex(_, _, _, _)
AssignDataIndex(objs, seq, list, i) ==
    IF i >= count(list) THEN objs
    ELSE AssignDataIndex(
             [objs EXCEPT ![seq[getRawIndex(list, i) + 1]].dataIndex = i],
             seq, list, i + 1)

\* Graph.update, with g.data and g.edgeData bound to the two tables
UpdateKeepsEveryEdgeRow(w, g, data, edgeData) ==
    LET nodes == w.graphs[g].nodes
        edges == w.graphs[g].edges
        nodeObjs1 == AssignDataIndex(ResetDataIndex(w.nodeObjs, nodes), nodes, data, 0)
        edgeObjs1 == AssignDataIndex(ResetDataIndex(w.edgeObjs, edges), edges, edgeData, 0)
    IN  [w EXCEPT !.nodeObjs = nodeObjs1,
                  !.edgeObjs = edgeObjs1,
                  !.graphs[g].data = Given(data),
                  !.graphs[g].edgeData = Given(edgeData)]

UpdateWithoutReset(w, g, data, edgeData) ==
    LET nodes == w.graphs[g].nodes
        edges == w.graphs[g].edges
        nodeObjs1 == AssignDataIndex(w.nodeObjs, nodes, data, 0)
        keep == [idx \in 0..(count(edgeData) - 1) |->
                    LET edge == w.edgeObjs[edges[getRawIndex(edgeData, idx) + 1]]
                    IN  /\ nodeObjs1[edge.node1].dataIndex >= 0
                        /\ nodeObjs1[edge.node2].dataIndex >= 0]
        edgeData1 == filterSelf(edgeData, keep)
        edgeObjs1 == AssignDataIndex(w.edgeObjs, edges, edgeData1, 0)
    IN  [w EXCEPT !.nodeObjs = nodeObjs1,
                  !.edgeObjs = edgeObjs1,
                  !.graphs[g].data = Given(data),
                  !.graphs[g].edgeData = Given(edgeData1)]

update(w, g, data, edgeData) ==
    LET nodes == w.graphs[g].nodes
        edges == w.graphs[g].edges
        nodeObjs1 == AssignDataIndex(ResetDataIndex(w.nodeObjs, nodes), nodes, data, 0)
        keep == [idx \in 0..(count(edgeData) - 1) |->
                    LET edge == w.edgeObjs[edges[getRawIndex(edgeData, idx) + 1]]
                    IN  /\ nodeObjs1[edge.node1].dataIndex >= 0
                        /\ nodeObjs1[edge.node2].dataIndex >= 0]
        edgeData1 == filterSelf(edgeData, keep)
        edgeObjs1 == AssignDataIndex(ResetDataIndex(w.edgeObjs, edges), edges, edgeData1, 0)
    IN  [w EXCEPT !.nodeObjs = nodeObjs1,
                  !.edgeObjs = edgeObjs1,
                  !.graphs[g].data = Given(data),
                  !.graphs[g].edgeData = Given(edgeData1)]

\* Graph.getNodeByIndex and Graph.getEdgeByIndex, the tables bound
getNodeByIndex(w, g, dataIndex) ==
    w.graphs[g].nodes[getRawIndex(w.graphs[g].data[1], dataIndex) + 1]

getEdgeByIndex(w, g, dataIndex) ==
    w.graphs[g].edges[getRawIndex(w.graphs[g].edgeData[1], dataIndex) + 1]

\* List.setItemVisual and List.setItemLayout of the table bound to the field
\* dataName of graph g: the table keeps the value under the index it is given
setItemVisual(st, g, dataName, idx, value) ==
    Store(st, <<g, dataName, "visual", idx>>, value)

setItemLayout(st, g, dataName, idx, layout) ==
    Store(st, <<g, dataName, "layout", idx>>, layout)

\* createGraphDataProxyMixin(hostName, dataName): setVisual and setLayout of
\* the object this, whose hostGraph and dataIndex are given
setVisual(st, hostGraph, dataName, dataIndex, value) ==
    IF dataIndex >= 0
    THEN setItemVisual(st, hostGraph, dataName, dataIndex, value)
    ELSE st

setLayout(st, hostGraph, dataName, dataIndex, layout) ==
    IF dataIndex >= 0
    THEN setItemLayout(st, hostGraph, dataName, dataIndex, layout)
    ELSE st

\* zrUtil.mixin(GraphEdge, createGraphDataProxyMixin('hostGraph', 'data'));
\* zrUtil.mixin(GraphNode, createGraphDataProxyMixin('hostGraph', 'edgeData'));
GraphEdgeDataName == "data"
GraphNodeDataName == "edgeData"

\* Graph.clone: the world with the new graph appended to w.graphs
RECURSIVE CloneNodes(_, _, _, _)
CloneNodes(w, g, from, i) ==
    IF i > Len(w.graphs[from].nodes) THEN w
    ELSE LET n == w.nodeObjs[w.graphs[from].nodes[i]]
         IN  CloneNodes(addNode(w, g, Given(n.id), Given(n.dataIndex)).w,
                        g, from, i + 1)

RECURSIVE CloneEdges(_, _, _, _)
CloneEdges(w, g, from, i) ==
    IF i > Len(w.graphs[from].edges) THEN w
    ELSE LET e == w.edgeObjs[w.graphs[from].edges[i]]
         IN  CloneEdges(addEdge(w, g, StrArg(w.nodeObjs[e.node1].id),
                                StrArg(w.nodeObjs[e.node2].id),
                                Given(e.dataIndex)).w,
                        g, from, i + 1)

clone(w, from) ==
    LET g == Len(w.graphs) + 1
        w0 == [w EXCEPT !.graphs = Append(@, Graph(w.graphs[from].directed))]
    IN  CloneEdges(CloneNodes(w0, g, from, 1), g, from, 1)

-----------------------------------------------------------------------------
(* Graph.breadthFirstTraverse, one step per iteration of its loops.  A      *)
(* traversal is the record of its local variables: the queue, currentNode, *)
(* the index i into currentNode[edgeType], and the calls of cb made so far *)
(* with what each returned.                                                *)

NoTraversal ==
    [pc |-> "idle", g |-> 0, start |-> Nothing, edgeType |-> "edges",
     queue |-> <<>>, cur |-> Nothing, i |-> 0, log |-> <<>>, nested |-> 0]

\* direction === 'out' ? 'outEdges' : (direction === 'in' ? 'inEdges' : 'edges')
EdgeTypeOf(direction) ==
    IF direction = "out" THEN "outEdges"
    ELSE IF direction = "in" THEN "inEdges" ELSE "edges"

\* node[edgeType]
AdjacencyList(node, edgeType) ==
    IF edgeType = "outEdges" THEN node.outEdges
    ELSE IF edgeType = "inEdges" THEN node.inEdges ELSE node.edges

\* e.node1 === currentNode ? e.node2 : e.node1
OtherNode(e, currentNode) ==
    IF e.node1 = currentNode THEN e.node2 ELSE e.node1

\* for (i ...) this.nodes[i].__visited = false
RECURSIVE ResetVisited(_, _)
ResetVisited(objs, seq) ==
    IF seq = <<>> THEN objs
    ELSE ResetVisited([objs EXCEPT ![Head(seq)].visited = FALSE], Tail(seq))

\* Lines 229-247: resolve the start, reset the flags, call cb(startNode, null),
\* which returns stop
BeginTraverse(w, g, startArg, direction, stop) ==
    LET startNode == IF startArg.t = "node" THEN startArg.n
                     ELSE Lookup(w.graphs[g].nodesMap, generateNodeKey(startArg.s))
        t0 == [NoTraversal EXCEPT !.g = g, !.edgeType = EdgeTypeOf(direction)]
    IN  IF startNode = Nothing
        THEN [w |-> w, t |-> [t0 EXCEPT !.pc = "done"]]
        ELSE LET w1 == [w EXCEPT !.nodeObjs = ResetVisited(@, w.graphs[g].nodes)]
                 t1 == [t0 EXCEPT !.start = startNode,
                                  !.log = <<[node |-> startNode, from |-> Nothing,
                                             ret |-> stop]>>]
             IN  IF stop
                 THEN [w |-> w1, t |-> [t1 EXCEPT !.pc = "done"]]
                 ELSE [w |-> w1, t |-> [t1 EXCEPT !.pc = "while",
                                                  !.queue = <<startNode>>]]

\* Lines 248-250: the test of the while loop and queue.shift()
ShiftQueue(t) ==
    IF t.queue = <<>>
    THEN [t EXCEPT !.pc = "done"]
    ELSE [t EXCEPT !.pc = "for", !.cur = Head(t.queue), !.queue = Tail(t.queue),
                   !.i = 0]

\* Lines 252-264: one iteration of the for loop over currentNode[edgeType];
\* stop is what cb returns if it is called
ExamineEdgeIgnoringStop(w, t, stop) ==
    LET edges == AdjacencyList(w.nodeObjs[t.cur], t.edgeType)
    IN  IF t.i >= Len(edges)
        THEN [w |-> w, t |-> [t EXCEPT !.pc = "while"]]
        ELSE LET e == w.edgeObjs[edges[t.i + 1]]
                 otherNode == OtherNode(e, t.cur)
             IN  IF w.nodeObjs[otherNode].visited
                 THEN [w |-> w, t |-> [t EXCEPT !.i = @ + 1]]
                 ELSE [w |-> [w EXCEPT !.nodeObjs[otherNode].visited = TRUE],
                       t |-> [t EXCEPT !.i = @ + 1,
                                       !.queue = Append(@, otherNode),
                                       !.log = Append(@, [node |-> otherNode,
                                                          from |-> t.cur,
                                                          ret |-> stop])]]

ExamineEdgeNeverMarks(w, t, stop) ==
    LET edges == AdjacencyList(w.nodeObjs[t.cur], t.edgeType)
    IN  IF t.i >= Len(edges)
        THEN [w |-> w, t |-> [t EXCEPT !.pc = "while"]]
        ELSE LET e == w.edgeObjs[edges[t.i + 1]]
                 otherNode == OtherNode(e, t.cur)
                 called == [t EXCEPT !.log = Append(@, [node |-> otherNode,
                                                        from |-> t.cur,
                                                        ret |-> stop])]
             IN  IF w.nodeObjs[otherNode].visited
                 THEN [w |-> w, t |-> [t EXCEPT !.i = @ + 1]]
                 ELSE IF stop
                      THEN [w |-> w, t |-> [called EXCEPT !.pc = "done"]]
                      ELSE [w |-> w,
                            t |-> [called EXCEPT !.i = @ + 1,
                                                 !.queue = Append(@, otherNode)]]

ExamineEdge(w, t, stop) ==
    LET edges == AdjacencyList(w.nodeObjs[t.cur], t.edgeType)
    IN  IF t.i >= Len(edges)
        THEN [w |-> w, t |-> [t EXCEPT !.pc = "while"]]
        ELSE LET e == w.edgeObjs[edges[t.i + 1]]
                 otherNode == OtherNode(e, t.cur)
                 called == [t EXCEPT !.log = Append(@, [node |-> otherNode,
                                                        from |-> t.cur,
                                                        ret |-> stop])]
             IN  IF w.nodeObjs[otherNode].visited
                 THEN [w |-> w, t |-> [t EXCEPT !.i = @ + 1]]
                 ELSE IF stop
                      THEN [w |-> w, t |-> [called EXCEPT !.pc = "done"]]
                      ELSE [w |-> [w EXCEPT !.nodeObjs[otherNode].visited = TRUE],
                            t |-> [called EXCEPT !.i = @ + 1,
                                                 !.queue = Append(@, otherNode)]]

\* The loops of lines 248-265 run to their end with a cb that returns false
RECURSIVE RunTraverse(_, _)
RunTraverse(w, t) ==
    IF t.pc = "done" THEN [w |-> w, t |-> t]
    ELSE IF t.pc = "while" THEN RunTraverse(w, ShiftQueue(t))
    ELSE LET r == ExamineEdge(w, t, FALSE)
         IN  RunTraverse(r.w, r.t)

\* Graph.breadthFirstTraverse as one call, with a cb that returns false:
\* the world it leaves and the calls of cb it made
breadthFirstTraverse(w, g, startArg, direction) ==
    LET r == BeginTraverse(w, g, startArg, direction, FALSE)
    IN  RunTraverse(r.w, r.t)

\* Lines 252-264 where cb is called and, before it returns stop, itself calls
\* breadthFirstTraverse(cb2, innerStart, innerDirection) on the same graph
ExamineEdgePrivateFlags(w, t, stop, innerStart, innerDirection) ==
    LET r == ExamineEdge(w, t, stop)
    IN  [w |-> r.w, t |-> [r.t EXCEPT !.nested = @ + 1]]

ExamineEdgeNested(w, t, stop, innerStart, innerDirection) ==
    LET edges == AdjacencyList(w.nodeObjs[t.cur], t.edgeType)
        e == w.edgeObjs[edges[t.i + 1]]
        otherNode == OtherNode(e, t.cur)
        inner == breadthFirstTraverse(w, t.g, innerStart, innerDirection)
        called == [t EXCEPT !.log = Append(@, [node |-> otherNode,
                                               from |-> t.cur,
                                               ret |-> stop]),
                            !.nested = @ + 1]
    IN  IF stop
        THEN [w |-> inner.w, t |-> [called EXCEPT !.pc = "done"]]
        ELSE [w |-> [inner.w EXCEPT !.nodeObjs[otherNode].visited = TRUE],
              t |-> [called EXCEPT !.i = @ + 1,
                                   !.queue = Append(@, otherNode)]]

-----------------------------------------------------------------------------
(* The calls a caller makes *)

NoCall == [op |-> "none", g |-> 0, id |-> "", idAbsent |-> FALSE,
           n1 |-> Nothing, n2 |-> Nothing, byId |-> FALSE, rows |-> <<>>,
           obj |-> Nothing, a1 |-> UndefinedArg, a2 |-> UndefinedArg,
           resync |-> FALSE,
           ret |-> Nothing]

Init ==
    /\ nodeObjs = <<>>
    /\ edgeObjs = <<>>
    /\ \E directed \in BOOLEAN : graphs = <<Graph(directed)>>
    /\ call = NoCall
    /\ created = {}
    /\ linked = {}
    /\ trav = NoTraversal
    /\ store = EmptyDictionary

Graphs == 1..Len(graphs)

\* Some addNode(id) on g has returned a node before
FirstCreated(g, id) == \E c \in created : c.g = g /\ c.id = id

\* g.addNode(id, dataIndex)
AddNode(g, idArg, dataIndex) ==
    LET r == addNode(World, g, idArg, dataIndex)
        id == IF idArg = Absent THEN NumberToString(dataIndex) ELSE idArg[1]
    IN  /\ trav.pc = "idle"
        /\ r.ret # Nothing => /\ Len(graphs[g].nodes) < MaxNodes
                               /\ Len(nodeObjs) < MaxNodeObjs
        /\ nodeObjs' = r.w.nodeObjs
        /\ edgeObjs' = r.w.edgeObjs
        /\ graphs' = r.w.graphs
        /\ call' = [NoCall EXCEPT !.op = "addNode", !.g = g, !.id = id,
                                  !.idAbsent = (idArg = Absent), !.ret = r.ret]
        /\ created' = IF r.ret # Nothing /\ ~FirstCreated(g, id)
                      THEN created \cup {[g |-> g, id |-> id, node |-> r.ret]}
                      ELSE created
        /\ UNCHANGED <<linked, trav, store>>

\* g.addEdge(a1, a2, dataIndex)
AddEdge(g, a1, a2, dataIndex) ==
    LET r == addEdge(World, g, a1, a2, dataIndex)
        n1 == ResolveEndpoint(World, g, a1)
        n2 == ResolveEndpoint(World, g, a2)
    IN  /\ trav.pc = "idle"
        /\ r.ret # Nothing => /\ Len(graphs[g].edges) < MaxEdges
                               /\ Len(edgeObjs) < MaxEdgeObjs
        /\ nodeObjs' = r.w.nodeObjs
        /\ edgeObjs' = r.w.edgeObjs
        /\ graphs' = r.w.graphs
        /\ call' = [NoCall EXCEPT !.op = "addEdge", !.g = g,
                                  !.a1 = a1, !.a2 = a2,
                                  !.n1 = n1, !.n2 = n2, !.ret = r.ret,
                                  !.byId = (a1.t = "str" /\ a2.t = "str")]
        /\ linked' = IF r.ret # Nothing
                     THEN linked \cup {[g |-> g, n1 |-> n1, n2 |-> n2,
                                        edge |-> r.ret]}
                     ELSE linked
        /\ UNCHANGED <<created, trav, store>>

\* The live rows a table can have over n storage rows: any sequence of
\* distinct storage indices 0..n-1
LiveSequences(n) ==
    {s \in UNION {[1..k -> 0..(n - 1)] : k \in 0..n} :
        \A i, j \in DOMAIN s : i # j => s[i] # s[j]}

\* The caller binds g.data and g.edgeData to tables with these live rows and
\* calls g.update()
Update(g, data, edgeData) ==
    LET w == update(World, g, data, edgeData)
    IN  /\ trav.pc = "idle"
        /\ nodeObjs' = w.nodeObjs
        /\ edgeObjs' = w.edgeObjs
        /\ graphs' = w.graphs
        /\ call' = [NoCall EXCEPT !.op = "update", !.g = g, !.rows = edgeData,
                                  !.resync = (graphs[g].data # Absent)]
        /\ UNCHANGED <<created, linked, trav, store>>

\* g.eachNode(cb) and g.eachEdge(cb); rows are the calls of cb
EachNode(g) ==
    /\ trav.pc = "idle"
    /\ call' = [NoCall EXCEPT !.op = "eachNode", !.g = g,
                              !.rows = eachNode(World, g)]
    /\ UNCHANGED <<nodeObjs, edgeObjs, graphs, created, linked, trav, store>>

EachEdge(g) ==
    /\ trav.pc = "idle"
    /\ call' = [NoCall EXCEPT !.op = "eachEdge", !.g = g,
                              !.rows = eachEdge(World, g)]
    /\ UNCHANGED <<nodeObjs, edgeObjs, graphs, created, linked, trav, store>>

\* new Graph.Node(id): a GraphNode made by its constructor, in no graph
ConstructNode(id) ==
    /\ trav.pc = "idle"
    /\ Len(nodeObjs) < MaxNodeObjs
    /\ nodeObjs' = Append(nodeObjs, GraphNode(id, Absent))
    /\ call' = [NoCall EXCEPT !.op = "new GraphNode", !.id = id,
                              !.ret = Len(nodeObjs) + 1]
    /\ UNCHANGED <<edgeObjs, graphs, created, linked, trav, store>>

\* from.clone()
Clone(from) ==
    LET w == clone(World, from)
        g == Len(graphs) + 1
    IN  /\ trav.pc = "idle"
        /\ Len(graphs) < MaxGraphs
        /\ Len(nodeObjs) + Len(graphs[from].nodes) <= MaxNodeObjs
        /\ Len(edgeObjs) + Len(graphs[from].edges) <= MaxEdgeObjs
        /\ nodeObjs' = w.nodeObjs
        /\ edgeObjs' = w.edgeObjs
        /\ graphs' = w.graphs
        /\ call' = [NoCall EXCEPT !.op = "clone", !.g = from, !.ret = g]
        /\ created' = created \cup
               {[g |-> g, id |-> w.nodeObjs[w.graphs[g].nodes[i]].id,
                 node |-> w.graphs[g].nodes[i]] :
                    i \in 1..Len(w.graphs[g].nodes)}
        /\ linked' = linked \cup
               {[g |-> g, n1 |-> w.edgeObjs[e].node1, n2 |-> w.edgeObjs[e].node2,
                 edge |-> e] : e \in {w.graphs[g].edges[i] :
                                         i \in 1..Len(w.graphs[g].edges)}}
        /\ UNCHANGED <<trav, store>>

\* node.setVisual(key, value) and node.setLayout(layout), node a GraphNode
\* of a graph whose tables are bound
NodeSet(n, attr, value) ==
    LET node == nodeObjs[n]
    IN  /\ trav.pc = "idle"
        /\ node.hostGraph # Nothing
        /\ graphs[node.hostGraph].data # Absent
        /\ Cardinality(DOMAIN store) < MaxWrites
        /\ store' = IF attr = "visual"
                    THEN setVisual(store, node.hostGraph, GraphNodeDataName,
                                   node.dataIndex, value)
                    ELSE setLayout(store, node.hostGraph, GraphNodeDataName,
                                   node.dataIndex, value)
        /\ call' = [NoCall EXCEPT !.op = "GraphNode.set", !.g = node.hostGraph,
                                  !.obj = n, !.id = attr]
        /\ UNCHANGED <<nodeObjs, edgeObjs, graphs, created, linked, trav>>

\* edge.setVisual(key, value) and edge.setLayout(layout), edge a GraphEdge
EdgeSet(e, attr, value) ==
    LET edge == edgeObjs[e]
    IN  /\ trav.pc = "idle"
        /\ graphs[edge.hostGraph].data # Absent
        /\ Cardinality(DOMAIN store) < MaxWrites
        /\ store' = IF attr = "visual"
                    THEN setVisual(store, edge.hostGraph, GraphEdgeDataName,
                                   edge.dataIndex, value)
                    ELSE setLayout(store, edge.hostGraph, GraphEdgeDataName,
                                   edge.dataIndex, value)
        /\ call' = [NoCall EXCEPT !.op = "GraphEdge.set", !.g = edge.hostGraph,
                                  !.obj = e, !.id = attr]
        /\ UNCHANGED <<nodeObjs, edgeObjs, graphs, created, linked, trav>>

\* g.breadthFirstTraverse(cb, start, direction), up to the return of the
\* first call of cb
StartTraverse(g, startArg, direction, stop) ==
    LET r == BeginTraverse(World, g, startArg, direction, stop)
    IN  /\ trav.pc \in {"idle", "done"}
        /\ nodeObjs' = r.w.nodeObjs
        /\ edgeObjs' = r.w.edgeObjs
        /\ graphs' = r.w.graphs
        /\ trav' = r.t
        /\ call' = [NoCall EXCEPT !.op = "breadthFirstTraverse", !.g = g]
        /\ UNCHANGED <<created, linked, store>>

\* The traversal in flight takes the next node from its queue, or returns
TraverseWhile ==
    /\ trav.pc = "while"
    /\ trav' = ShiftQueue(trav)
    /\ UNCHANGED <<nodeObjs, edgeObjs, graphs, call, created, linked, store>>

\* The traversal in flight examines the next edge of the current node
TraverseFor ==
    /\ trav.pc = "for"
    /\ \E stop \in BOOLEAN :
           LET r == ExamineEdge(World, trav, stop)
           IN  /\ nodeObjs' = r.w.nodeObjs
               /\ edgeObjs' = r.w.edgeObjs
               /\ graphs' = r.w.graphs
               /\ trav' = r.t
    /\ UNCHANGED <<call, created, linked, store>>

\* The ids and seed positions callers pass
IdArgs == {Given("a"), Given("a-a"), Absent}
SeedArgs == {Absent, Given(0)}
NoSeed == {Absent}

\* The endpoints a caller of g.addEdge names: nodes by reference, by
\* position (one position past the end included) or by id
NodesOf(g) == {graphs[g].nodes[i] : i \in 1..Len(graphs[g].nodes)}
ByReference(ns) == {NodeArg(n) : n \in ns}
ByPosition(g) == {NumArg(k) : k \in 0..Len(graphs[g].nodes)}
ById(ids) == {StrArg(s[1]) : s \in ids \ {Absent}}

AddNodeCall ==
    \E g \in Graphs, idArg \in IdArgs \cup {Given("0")}, dataIndex \in SeedArgs :
        AddNode(g, idArg, dataIndex)

AddEdgeByReference ==
    \E g \in Graphs :
        \E a1 \in ByReference(NodesOf(g)), a2 \in ByReference(NodesOf(g)) :
            AddEdge(g, a1, a2, Absent)

AddEdgeByPosition ==
    \E g \in Graphs :
        \E a1 \in ByPosition(g), a2 \in ByPosition(g) :
            AddEdge(g, a1, a2, Absent)

AddEdgeById ==
    \E g \in Graphs :
        \E a1 \in ById(IdArgs), a2 \in ById(IdArgs) :
            AddEdge(g, a1, a2, Absent)

\* Adding nodes and edges by id
Next ==
    \/ AddNodeCall
    \/ AddEdgeById

Spec == Init /\ [][Next]_vars

AddNodeNoSeed ==
    \E g \in Graphs, idArg \in IdArgs : AddNode(g, idArg, Absent)

\* Adding nodes and edges, the endpoints named in each of the three ways
NextEdges ==
    \/ AddNodeNoSeed
    \/ AddEdgeByReference
    \/ AddEdgeByPosition
    \/ AddEdgeById

SpecEdges == Init /\ [][NextEdges]_vars

\* The life of a graph made from tables: its nodes and edges are added,
\* then the tables are bound and it is synchronized
Unsynced(g) == graphs[g].data = Absent

BuildNode ==
    \E g \in Graphs, idArg \in IdArgs :
        Unsynced(g) /\ AddNode(g, idArg, Absent)

BuildEdge ==
    \E g \in Graphs :
        \E a1 \in ById(IdArgs), a2 \in ById(IdArgs), dataIndex \in SeedArgs :
            Unsynced(g) /\ AddEdge(g, a1, a2, dataIndex)

UpdateCall ==
    \E g \in Graphs :
        \E data \in LiveSequences(Len(graphs[g].nodes)),
           edgeData \in LiveSequences(Len(graphs[g].edges)) :
            Unsynced(g) /\ Update(g, data, edgeData)

NextSync ==
    \/ BuildNode
    \/ BuildEdge
    \/ UpdateCall

SpecSync == Init /\ [][NextSync]_vars

\* The tables of a synchronized graph are filtered or reordered and the
\* graph is synchronized again
UpdateAgainCall ==
    \E g \in Graphs :
        \E data \in LiveSequences(Len(graphs[g].nodes)),
           edgeData \in LiveSequences(Len(graphs[g].edges)) :
            ~Unsynced(g) /\ Update(g, data, edgeData)

NextResync ==
    \/ BuildNode
    \/ BuildEdge
    \/ UpdateCall
    \/ UpdateAgainCall

SpecResync == Init /\ [][NextResync]_vars

\* Calls with two ids only
PlainIds == {Given("a"), Given("a-a")}
AddPlainNode == \E g \in Graphs, idArg \in PlainIds : AddNode(g, idArg, Absent)
AddPlainEdge ==
    \E g \in Graphs :
        \E a1 \in ById(PlainIds), a2 \in ById(PlainIds) :
            AddEdge(g, a1, a2, Absent)

\* from.clone() for some graph
CloneCall == \E from \in Graphs : Clone(from)

\* g.addEdge(n1, n2) with references to nodes of another Graph instance
AddEdgeByForeignReference ==
    \E g \in Graphs, h \in Graphs :
        /\ g # h
        /\ \E a1 \in ByReference(NodesOf(h)),
              a2 \in ByReference(NodesOf(h) \cup NodesOf(g)) :
               AddEdge(g, a1, a2, Absent)

\* Building graphs and cloning them
NextClone ==
    \/ AddPlainNode
    \/ AddPlainEdge
    \/ CloneCall

SpecClone == Init /\ [][NextClone]_vars

\* Building graphs, cloning them and passing nodes between them
NextShare ==
    \/ AddPlainNode
    \/ AddEdgeByForeignReference
    \/ CloneCall

SpecShare == Init /\ [][NextShare]_vars

\* Graphs whose nodes and edges are added with and without seed positions
\* are iterated
AddSeededNode ==
    \E g \in Graphs, idArg \in PlainIds, dataIndex \in SeedArgs :
        AddNode(g, idArg, dataIndex)

EachNodeCall == \E g \in Graphs : EachNode(g)
EachEdgeCall == \E g \in Graphs : EachEdge(g)

NextEach ==
    \/ AddSeededNode
    \/ BuildEdge
    \/ UpdateCall
    \/ EachNodeCall
    \/ EachEdgeCall

SpecEach == Init /\ [][NextEach]_vars

\* The visuals and layouts of the nodes and edges of a synchronized graph
\* are set
Attributes == {"visual", "layout"}
Values == {"v"}

NodeSetCall ==
    \E n \in 1..Len(nodeObjs), attr \in Attributes, value \in Values :
        NodeSet(n, attr, value)

EdgeSetCall ==
    \E e \in 1..Len(edgeObjs), attr \in Attributes, value \in Values :
        EdgeSet(e, attr, value)

NextAccess ==
    \/ BuildNode
    \/ BuildEdge
    \/ UpdateCall
    \/ NodeSetCall
    \/ EdgeSetCall

SpecAccess == Init /\ [][NextAccess]_vars

\* A node made by the constructor is passed to addEdge as an endpoint
Detached == {n \in 1..Len(nodeObjs) : nodeObjs[n].hostGraph = Nothing}

ConstructNodeCall ==
    \E idArg \in PlainIds : Detached = {} /\ ConstructNode(idArg[1])

AddEdgeByDetachedReference ==
    \E g \in Graphs :
        \E a1 \in ByReference(Detached),
           a2 \in ByReference(Detached \cup NodesOf(g)) :
            AddEdge(g, a1, a2, Absent)

\* Building graphs from nodes of their own and nodes of no graph, and
\* cloning them
NextDetached ==
    \/ AddPlainNode
    \/ ConstructNodeCall
    \/ AddEdgeByDetachedReference
    \/ CloneCall

SpecDetached == Init /\ [][NextDetached]_vars

\* The traversal in flight examines the next edge of the current node and
\* calls cb, and cb runs a traversal of the same graph before it returns
TraverseForNested ==
    /\ trav.pc = "for"
    /\ trav.nested < MaxNested
    /\ LET edges == AdjacencyList(nodeObjs[trav.cur], trav.edgeType)
       IN  /\ trav.i < Len(edges)
           /\ ~nodeObjs[OtherNode(edgeObjs[edges[trav.i + 1]], trav.cur)].visited
    /\ \E stop \in BOOLEAN, innerStart \in ByReference(NodesOf(trav.g)),
          innerDirection \in {"none", "in", "out"} :
           LET r == ExamineEdgeNested(World, trav, stop, innerStart, innerDirection)
           IN  /\ nodeObjs' = r.w.nodeObjs
               /\ edgeObjs' = r.w.edgeObjs
               /\ graphs' = r.w.graphs
               /\ trav' = r.t
               /\ call' = [NoCall EXCEPT
                               !.op = "nested breadthFirstTraverse",
                               !.g = trav.g,
                               !.n1 = innerStart.n,
                               !.rows = breadthFirstTraverse(World, trav.g,
                                            innerStart, innerDirection).t.log]
    /\ UNCHANGED <<created, linked, store>>

\* The graphs traversed: the k-th node added has the k-th of these ids
TraversedIds == <<"a", "b", "c", "d">>
Directions == {"none", "in", "out"}

AddNextNode ==
    \E g \in Graphs :
        /\ Len(graphs[g].nodes) < Len(TraversedIds)
        /\ AddNode(g, Given(TraversedIds[Len(graphs[g].nodes) + 1]), Absent)

AddNewEdge ==
    \E g \in Graphs :
        \E a1 \in ByReference(NodesOf(g)), a2 \in ByReference(NodesOf(g)) :
            /\ AddEdge(g, a1, a2, Absent)
            /\ call'.ret # Nothing

\* The start is a node of the graph, the id of one, or an id of none
StartTraverseCall ==
    \E g \in Graphs, direction \in Directions, stop \in BOOLEAN :
        \E startArg \in ByReference(NodesOf(g))
                         \cup {StrArg(TraversedIds[k]) : k \in {1, Len(TraversedIds)}} :
            StartTraverse(g, startArg, direction, stop)

\* Building a graph, then traversing it
NextTraverse ==
    \/ AddNextNode
    \/ AddNewEdge
    \/ StartTraverseCall
    \/ TraverseWhile
    \/ TraverseFor

SpecTraverse == Init /\ [][NextTraverse]_vars

\* Building a graph, then traversing it with callbacks that traverse it
NextNested ==
    \/ AddNextNode
    \/ AddNewEdge
    \/ StartTraverseCall
    \/ TraverseWhile
    \/ TraverseFor
    \/ TraverseForNested

SpecNested == Init /\ [][NextNested]_vars

\* breadthFirstTraverse is one synchronous call: once entered, its loops go
\* on for as long as cb returns
SpecTraverseFair ==
    SpecTraverse /\ WF_vars(TraverseWhile) /\ WF_vars(TraverseFor)

-----------------------------------------------------------------------------
(* Properties *)

SeqRange(seq) == {seq[i] : i \in 1..Len(seq)}
Min(S) == CHOOSE x \in S : \A y \in S : x <= y

\* The ids looked up: those callers add, and some never added
QueryIds == {"a", "a-a", "0", "undefined", "b", ""}

\* C1: node ids are pairwise distinct within Graph.nodes; getNodeById(id)
\* is the node created by the first addNode that succeeded with that id, and
\* nothing for an id never added.
C1_UniqueIdsAndLookup ==
    \A g \in Graphs :
        LET nodes == graphs[g].nodes
        IN  /\ \A i, j \in 1..Len(nodes) :
                   i # j => nodeObjs[nodes[i]].id # nodeObjs[nodes[j]].id
            /\ \A id \in QueryIds :
                   LET firsts == {c \in created : c.g = g /\ c.id = id}
                   IN  /\ Cardinality(firsts) <= 1
                       /\ getNodeById(World, g, id) =
                              IF firsts = {} THEN Nothing
                              ELSE (CHOOSE c \in firsts : TRUE).node

\* A duplicate addNode was refused on a graph that has two nodes, an edge
\* and has been synchronized
C1_Witness ==
    /\ call.op = "addNode" /\ call.ret = Nothing
    /\ Len(graphs[1].nodes) = 2
    /\ Len(graphs[1].edges) > 0
    /\ \E e \in SeqRange(graphs[1].edges) : edgeObjs[e].dataIndex >= 0

\* C2: addNode with an id the graph already has (an absent id whose seed
\* position stringifies to an existing id included) returns nothing and
\* leaves nodes, indices, edges, adjacency lists and live positions unchanged.
C2_DuplicateAddNodeIsNoOp ==
    [][(/\ call'.op = "addNode"
        /\ \E n \in NodesOf(call'.g) : nodeObjs[n].id = call'.id)
       => (/\ call'.ret = Nothing
           /\ UNCHANGED <<nodeObjs, edgeObjs, graphs>>)]_vars

\* addNode(absent, 0) was refused because a node added as addNode('0')
\* exists, in a graph that has an edge
C2_Witness ==
    /\ call.op = "addNode" /\ call.ret = Nothing
    /\ call.id = "0" /\ call.idAbsent
    /\ \E n \in NodesOf(1) : nodeObjs[n].id = "0" /\ nodeObjs[n].dataIndex = -1
    /\ Len(graphs[1].edges) > 0

\* C3: in a directed graph getEdge(a, b) returns an edge iff addEdge
\* succeeded with source a and target b; in an undirected graph
\* getEdge(a, b) and getEdge(b, a) return the same edge.
C3_GetEdgeMatchesAddEdge ==
    \A g \in Graphs : \A a \in NodesOf(g), b \in NodesOf(g) :
        IF isDirected(World, g)
        THEN (getEdge(World, g, NodeArg(a), NodeArg(b)) # Nothing)
             <=> (\E l \in linked : l.g = g /\ l.n1 = a /\ l.n2 = b)
        ELSE getEdge(World, g, NodeArg(a), NodeArg(b))
             = getEdge(World, g, NodeArg(b), NodeArg(a))

\* C4: in an undirected graph at most one edge exists per unordered pair of
\* nodes.
C4_OneEdgePerUnorderedPair ==
    \A g \in Graphs :
        ~isDirected(World, g) =>
            \A i, j \in 1..Len(graphs[g].edges) :
                LET e1 == edgeObjs[graphs[g].edges[i]]
                    e2 == edgeObjs[graphs[g].edges[j]]
                IN  i # j => {e1.node1, e1.node2} # {e2.node1, e2.node2}

\* C5: in a directed graph at most one edge exists per ordered pair; a second
\* addEdge(a, b) returns nothing and changes nothing, while addEdge(b, a)
\* with no edge from b to a yet still creates a distinct edge.
C5_OneEdgePerOrderedPair ==
    [][(/\ call'.op = "addEdge"
        /\ isDirected(World, call'.g)
        /\ call'.n1 # Nothing /\ call'.n2 # Nothing)
       => LET g == call'.g
              same == {e \in SeqRange(graphs[g].edges) :
                          /\ edgeObjs[e].node1 = call'.n1
                          /\ edgeObjs[e].node2 = call'.n2}
          IN  /\ Cardinality(same) <= 1
              /\ same # {} => /\ call'.ret = Nothing
                              /\ UNCHANGED <<nodeObjs, edgeObjs, graphs>>
              /\ same = {} => /\ call'.ret # Nothing
                              /\ call'.ret \notin SeqRange(graphs[g].edges)
                              /\ edgeObjs'[call'.ret].node1 = call'.n1
                              /\ edgeObjs'[call'.ret].node2 = call'.n2]_vars

\* C6: every edge of G.edges has its two nodes in G.nodes, and no node or
\* edge object is in the nodes, edges or adjacency lists of two graphs.
OwnedNodes(g) == NodesOf(g)
OwnedEdges(g) ==
    SeqRange(graphs[g].edges) \cup
    UNION {SeqRange(nodeObjs[n].edges) \cup SeqRange(nodeObjs[n].inEdges)
           \cup SeqRange(nodeObjs[n].outEdges) : n \in NodesOf(g)}

C6_NothingSharedBetweenGraphs ==
    /\ \A g \in Graphs : \A e \in SeqRange(graphs[g].edges) :
           /\ edgeObjs[e].node1 \in NodesOf(g)
           /\ edgeObjs[e].node2 \in NodesOf(g)
    /\ \A g \in Graphs, h \in Graphs :
           g # h => /\ OwnedNodes(g) \cap OwnedNodes(h) = {}
                    /\ OwnedEdges(g) \cap OwnedEdges(h) = {}

\* The nodes one hop from n along the adjacency list a traversal selects
Neighbours(n, edgeType) ==
    {OtherNode(edgeObjs[e], n) :
        e \in SeqRange(AdjacencyList(nodeObjs[n], edgeType))}

\* The nodes within k hops of the nodes S
RECURSIVE Within(_, _, _)
Within(S, k, edgeType) ==
    IF k = 0 THEN S
    ELSE LET B == Within(S, k - 1, edgeType)
         IN  B \cup UNION {Neighbours(n, edgeType) : n \in B}

Reachable(start, edgeType) == Within({start}, Len(nodeObjs), edgeType)

Distance(start, n, edgeType) ==
    Min({k \in 0..Len(nodeObjs) : n \in Within({start}, k, edgeType)})

\* The place of the first edge of from's adjacency list that leads to n
FirstPlace(from, n, edgeType) ==
    LET list == AdjacencyList(nodeObjs[from], edgeType)
    IN  Min({i \in 1..Len(list) : OtherNode(edgeObjs[list[i]], from) = n})

Traversing == trav.pc # "idle" /\ trav.start # Nothing
NeverStopped == \A k \in 1..Len(trav.log) : ~trav.log[k].ret

\* C7: a traversal whose callback never returns true calls visit exactly
\* once for each node reachable from start along the selected adjacency
\* lists, start included, and for no other node; no node is visited twice.
C7_EachReachableNodeOnce ==
    (Traversing /\ NeverStopped) =>
        /\ \A j, k \in 1..Len(trav.log) :
               j # k => trav.log[j].node # trav.log[k].node
        /\ \A k \in 1..Len(trav.log) :
               trav.log[k].node \in Reachable(trav.start, trav.edgeType)
        /\ trav.pc = "done" =>
               {trav.log[k].node : k \in 1..Len(trav.log)}
                   = Reachable(trav.start, trav.edgeType)

\* C8: the visit calls are in non-decreasing order of hop distance from
\* start; the first is visit(start, none); every later visit(other, from) has
\* from already visited and adjacent to other; the neighbours discovered from
\* one node are visited in the order of that node's adjacency list.
C8_BreadthFirstOrder ==
    Traversing =>
        LET log == trav.log
            dist(k) == Distance(trav.start, log[k].node, trav.edgeType)
        IN  /\ log[1].node = trav.start /\ log[1].from = Nothing
            /\ \A k \in 2..Len(log) :
                   /\ \E j \in 1..(k - 1) : log[j].node = log[k].from
                   /\ log[k].node \in Neighbours(log[k].from, trav.edgeType)
            /\ \A j, k \in 1..Len(log) : j < k => dist(j) <= dist(k)
            /\ \A j, k \in 2..Len(log) :
                   (j < k /\ log[j].from = log[k].from) =>
                       FirstPlace(log[j].from, log[j].node, trav.edgeType)
                           < FirstPlace(log[k].from, log[k].node, trav.edgeType)

\* C9: once a visit call has returned true, on the start node or on a later
\* one, the traversal has returned and no further visit call is made.
C9_NoVisitAfterStop ==
    \A k \in 1..Len(trav.log) :
        trav.log[k].ret => (k = Len(trav.log) /\ trav.pc = "done")

\* The callback returned true on a node other than the start while another
\* node was still in the queue
C9_Witness ==
    /\ trav.pc = "done"
    /\ Len(trav.log) >= 2
    /\ trav.log[Len(trav.log)].ret
    /\ trav.queue # <<>>

\* C10: immediately after update returns, every edge with dataIndex >= 0
\* has node1.dataIndex >= 0 and node2.dataIndex >= 0.
C10_LiveEdgeHasLiveEndpoints ==
    call.op = "update" =>
        \A e \in SeqRange(graphs[call.g].edges) :
            edgeObjs[e].dataIndex >= 0 =>
                /\ nodeObjs[edgeObjs[e].node1].dataIndex >= 0
                /\ nodeObjs[edgeObjs[e].node2].dataIndex >= 0

\* update has dropped a row of the edge table, whose edge has an endpoint
\* that is not live, and has kept another row
C10_Witness ==
    /\ call.op = "update"
    /\ \E k \in 1..Len(call.rows) :
           LET e == edgeObjs[graphs[call.g].edges[call.rows[k] + 1]]
           IN  /\ e.dataIndex = -1
               /\ \/ nodeObjs[e.node1].dataIndex = -1
                  \/ nodeObjs[e.node2].dataIndex = -1
    /\ \E e \in SeqRange(graphs[call.g].edges) : edgeObjs[e].dataIndex >= 0

\* The live position each storage index has under the live sequence L:
\* p where L[p] = s, and -1 where s does not occur
PlaceIn(L, s) ==
    IF \E p \in 0..(Len(L) - 1) : getRawIndex(L, p) = s
    THEN CHOOSE p \in 0..(Len(L) - 1) : getRawIndex(L, p) = s
    ELSE -1

\* C11: after update, the node at storage index s has dataIndex p if the
\* node table's live sequence has s at position p and -1 if it has s
\* nowhere, whatever dataIndex was before; getNodeByIndex(p).dataIndex = p
\* for every live position p; and the same for the edges against the edge
\* table's live sequence as update has filtered it.
C11_DataIndexFollowsTables ==
    call.op = "update" =>
        LET g == call.g
            data == graphs[g].data[1]
            edgeData == graphs[g].edgeData[1]
        IN  /\ \A s \in 0..(Len(graphs[g].nodes) - 1) :
                   nodeObjs[graphs[g].nodes[s + 1]].dataIndex = PlaceIn(data, s)
            /\ \A p \in 0..(count(data) - 1) :
                   nodeObjs[getNodeByIndex(World, g, p)].dataIndex = p
            /\ \A s \in 0..(Len(graphs[g].edges) - 1) :
                   edgeObjs[graphs[g].edges[s + 1]].dataIndex = PlaceIn(edgeData, s)
            /\ \A p \in 0..(count(edgeData) - 1) :
                   edgeObjs[getEdgeByIndex(World, g, p)].dataIndex = p

\* A graph synchronized before is synchronized with the node table <<2, 0>>:
\* nodes[2] is at live position 0, nodes[0] at 1, nodes[1] is not live, and
\* an edge is live
C11_Witness ==
    /\ call.op = "update" /\ call.resync
    /\ graphs[call.g].data = Given(<<2, 0>>)
    /\ nodeObjs[graphs[call.g].nodes[3]].dataIndex = 0
    /\ nodeObjs[graphs[call.g].nodes[1]].dataIndex = 1
    /\ nodeObjs[graphs[call.g].nodes[2]].dataIndex = -1
    /\ \E e \in SeqRange(graphs[call.g].edges) : edgeObjs[e].dataIndex >= 0

\* C12: in every reachable state an edge has dataIndex >= 0 only if both of
\* its endpoint nodes have dataIndex >= 0.
C12_LiveEdgeOnlyBetweenLiveNodes ==
    \A g \in Graphs : \A e \in SeqRange(graphs[g].edges) :
        edgeObjs[e].dataIndex >= 0 =>
            /\ nodeObjs[edgeObjs[e].node1].dataIndex >= 0
            /\ nodeObjs[edgeObjs[e].node2].dataIndex >= 0

\* What a graph is to a caller who does not compare object references: the
\* flag, the nodes in storage order with their id, dataIndex and adjacency
\* lists, the edges in storage order; an edge is (node1.id, node2.id, dataIndex)
EdgeView(w, e) ==
    <<w.nodeObjs[w.edgeObjs[e].node1].id, w.nodeObjs[w.edgeObjs[e].node2].id,
      w.edgeObjs[e].dataIndex>>

EdgeViews(w, seq) == [i \in 1..Len(seq) |-> EdgeView(w, seq[i])]

NodeView(w, n) ==
    [id |-> w.nodeObjs[n].id,
     dataIndex |-> w.nodeObjs[n].dataIndex,
     edges |-> EdgeViews(w, w.nodeObjs[n].edges),
     inEdges |-> EdgeViews(w, w.nodeObjs[n].inEdges),
     outEdges |-> EdgeViews(w, w.nodeObjs[n].outEdges)]

GraphView(w, g) ==
    [directed |-> w.graphs[g].directed,
     nodes |-> [i \in 1..Len(w.graphs[g].nodes) |-> NodeView(w, w.graphs[g].nodes[i])],
     edges |-> EdgeViews(w, w.graphs[g].edges)]

\* The objects a graph holds, and the graph's own fields and objects
ObjectsOf(w, g) ==
    LET ns == SeqRange(w.graphs[g].nodes)
        es == SeqRange(w.graphs[g].edges)
    IN  [nodes |-> ns \cup {w.edgeObjs[e].node1 : e \in es}
                      \cup {w.edgeObjs[e].node2 : e \in es},
         edges |-> es \cup UNION {SeqRange(w.nodeObjs[n].edges)
                                  \cup SeqRange(w.nodeObjs[n].inEdges)
                                  \cup SeqRange(w.nodeObjs[n].outEdges) : n \in ns}]

Contents(w, g) ==
    [graph |-> w.graphs[g],
     nodes |-> [n \in ObjectsOf(w, g).nodes |-> w.nodeObjs[n]],
     edges |-> [e \in ObjectsOf(w, g).edges |-> w.edgeObjs[e]]]

\* C13: clone() returns a graph with the same directed flag, the same node
\* ids and dataIndex in the same order, the same edges as (node1.id,
\* node2.id, dataIndex) in the same order and the same adjacency lists, that
\* shares no node or edge object with the original; addNode and addEdge by
\* id on one graph afterwards leave every other graph as it was.
C13_CloneIsEqualAndSeparate ==
    [][/\ call'.op = "clone" =>
           /\ GraphView(World', call'.ret) = GraphView(World', call'.g)
           /\ GraphView(World', call'.g) = GraphView(World, call'.g)
           /\ ObjectsOf(World', call'.ret).nodes
                  \cap ObjectsOf(World', call'.g).nodes = {}
           /\ ObjectsOf(World', call'.ret).edges
                  \cap ObjectsOf(World', call'.g).edges = {}
       /\ (call'.op = "addNode" \/ (call'.op = "addEdge" /\ call'.byId)) =>
           \A h \in Graphs :
               h # call'.g => Contents(World', h) = Contents(World, h)]_vars

\* The part of the store that belongs to one table of one graph
TablePart(st, g, dataName) ==
    {k \in DOMAIN st : k[1] = g /\ k[2] = dataName}

TableOf(st, g, dataName) ==
    [k \in TablePart(st, g, dataName) |-> st[k]]

\* C14: setVisual or setLayout on a GraphNode with dataIndex >= 0 changes
\* the row of that node in the node table (hostGraph.data) and leaves the
\* edge table (hostGraph.edgeData) unchanged; on a GraphEdge with
\* dataIndex >= 0 it changes the row of that edge in the edge table and
\* leaves the node table unchanged.
C14_AccessorsUseOwnTable ==
    [][/\ (call'.op = "GraphNode.set" /\ nodeObjs[call'.obj].dataIndex >= 0) =>
           /\ <<call'.g, "data", call'.id, nodeObjs[call'.obj].dataIndex>>
                  \in DOMAIN store'
           /\ TableOf(store', call'.g, "edgeData")
                  = TableOf(store, call'.g, "edgeData")
       /\ (call'.op = "GraphEdge.set" /\ edgeObjs[call'.obj].dataIndex >= 0) =>
           /\ <<call'.g, "edgeData", call'.id, edgeObjs[call'.obj].dataIndex>>
                  \in DOMAIN store'
           /\ TableOf(store', call'.g, "data")
                  = TableOf(store, call'.g, "data")]_vars

\* The calls of a log are made on the objects at their storage indices, in
\* increasing storage index
InStorageOrder(log, seq) ==
    /\ \A k \in 1..Len(log) :
           log[k].idx \in 0..(Len(seq) - 1) /\ log[k].obj = seq[log[k].idx + 1]
    /\ \A j, k \in 1..Len(log) : j < k => log[j].idx < log[k].idx

\* C15: eachNode calls cb exactly for the nodes with dataIndex >= 0, in
\* increasing storage index and with that index as second argument; eachEdge
\* calls cb exactly for the edges with dataIndex >= 0 whose node1 and node2
\* both have dataIndex >= 0, in increasing storage index.
C15_EachVisitsExactlyLive ==
    /\ call.op = "eachNode" =>
           LET nodes == graphs[call.g].nodes
           IN  /\ InStorageOrder(call.rows, nodes)
               /\ {call.rows[k].idx : k \in 1..Len(call.rows)}
                      = {i \in 0..(Len(nodes) - 1) :
                            nodeObjs[nodes[i + 1]].dataIndex >= 0}
    /\ call.op = "eachEdge" =>
           LET edges == graphs[call.g].edges
           IN  /\ InStorageOrder(call.rows, edges)
               /\ {call.rows[k].idx : k \in 1..Len(call.rows)}
                      = {i \in 0..(Len(edges) - 1) :
                            LET e == edgeObjs[edges[i + 1]]
                            IN  /\ e.dataIndex >= 0
                                /\ nodeObjs[e.node1].dataIndex >= 0
                                /\ nodeObjs[e.node2].dataIndex >= 0}

\* eachEdge has called cb for one edge and passed over another that has
\* dataIndex >= 0 and an endpoint that is not live
C15_Witness ==
    /\ call.op = "eachEdge"
    /\ Len(call.rows) = 1
    /\ \E e \in SeqRange(graphs[call.g].edges) :
           /\ edgeObjs[e].dataIndex >= 0
           /\ \/ nodeObjs[edgeObjs[e].node1].dataIndex < 0
              \/ nodeObjs[edgeObjs[e].node2].dataIndex < 0

\* An endpoint argument of addEdge that names no node of g: an id that no
\* node of g has, or a position outside 0..nodes.length-1
Unresolvable(g, a) ==
    \/ a.t = "str" /\ \A n \in NodesOf(g) : nodeObjs[n].id # a.s
    \/ a.t = "num" /\ a.n \notin 0..(Len(graphs[g].nodes) - 1)

InRange(g, a) == a.t = "num" /\ a.n \in 0..(Len(graphs[g].nodes) - 1)

\* C16: addEdge with an endpoint that is an id no node has, or a position
\* outside 0..nodes.length-1, returns nothing and changes no edge list, index
\* or adjacency list, whatever ids the nodes have; a position inside the
\* range resolves to the node at that position of nodes.
C16_UnresolvedEndpointIsNoOp ==
    [][call'.op = "addEdge" =>
           LET g == call'.g
           IN  /\ (Unresolvable(g, call'.a1) \/ Unresolvable(g, call'.a2)) =>
                      /\ call'.ret = Nothing
                      /\ UNCHANGED <<nodeObjs, edgeObjs, graphs>>
               /\ InRange(g, call'.a1) =>
                      call'.n1 = graphs[g].nodes[call'.a1.n + 1]
               /\ InRange(g, call'.a2) =>
                      call'.n2 = graphs[g].nodes[call'.a2.n + 1]]_vars

\* C17: addEdge(a, b) with both endpoints resolved returns nothing only if
\* an edge from a to b exists, and otherwise returns a new edge with
\* node1 = a and node2 = b, whatever characters the ids contain; an edge
\* that getEdge(a, b) returns has the endpoints a and b, in that order in a
\* directed graph and in either order in an undirected one.
C17_EdgeIndexKeyedByPair ==
    [][call'.op = "addEdge" =>
           LET g == call'.g
               same == {e \in SeqRange(graphs[g].edges) :
                           /\ edgeObjs[e].node1 = call'.n1
                           /\ edgeObjs[e].node2 = call'.n2}
           IN  /\ (call'.n1 # Nothing /\ call'.n2 # Nothing) =>
                      IF call'.ret = Nothing
                      THEN same # {}
                      ELSE /\ call'.ret \notin SeqRange(graphs[g].edges)
                           /\ edgeObjs'[call'.ret].node1 = call'.n1
                           /\ edgeObjs'[call'.ret].node2 = call'.n2
               /\ \A a \in NodesOf(g), b \in NodesOf(g) :
                      LET e == getEdge(World', g, NodeArg(a), NodeArg(b))
                      IN  e # Nothing =>
                              \/ /\ edgeObjs'[e].node1 = a
                                 /\ edgeObjs'[e].node2 = b
                              \/ /\ ~isDirected(World, g)
                                 /\ edgeObjs'[e].node1 = b
                                 /\ edgeObjs'[e].node2 = a]_vars

\* The edges of g.edges that leave n, that enter n, that touch n, in the
\* order of g.edges (the order of their creation)
EdgesFrom(g, n) ==
    LET leaves(e) == edgeObjs[e].node1 = n
    IN  SelectSeq(graphs[g].edges, leaves)

EdgesTo(g, n) ==
    LET enters(e) == edgeObjs[e].node2 = n
    IN  SelectSeq(graphs[g].edges, enters)

EdgesAt(g, n) ==
    LET touches(e) == edgeObjs[e].node1 = n \/ edgeObjs[e].node2 = n
    IN  SelectSeq(graphs[g].edges, touches)

\* C18: for each node n of a graph, n.edges is exactly the edges of
\* Graph.edges with n as node1 or node2, each once (a self-loop once) and in
\* creation order; in a directed graph n.outEdges is the edges with
\* node1 = n and n.inEdges those with node2 = n; in an undirected graph both
\* are empty, and a traversal with direction in or out visits the start only.
C18_AdjacencyMatchesEdges ==
    /\ \A g \in Graphs : \A n \in NodesOf(g) :
           /\ nodeObjs[n].edges = EdgesAt(g, n)
           /\ nodeObjs[n].outEdges =
                  IF isDirected(World, g) THEN EdgesFrom(g, n) ELSE <<>>
           /\ nodeObjs[n].inEdges =
                  IF isDirected(World, g) THEN EdgesTo(g, n) ELSE <<>>
    /\ (Traversing /\ ~isDirected(World, trav.g) /\ trav.edgeType # "edges") =>
           /\ Len(trav.log) = 1
           /\ trav.log[1].node = trav.start

\* The calls of cb made on node n by the traversal in flight
VisitsOf(n) == {k \in 1..Len(trav.log) : trav.log[k].node = n}

\* C19: breadthFirstTraverse returns, for every start and direction, on
\* graphs with cycles, self-loops and antiparallel edges, whatever cb
\* returns: a traversal in its loops reaches its return; a node enters the
\* queue at most once after the start has entered it; a start that resolves
\* to no node makes the call return with no call of cb and no __visited flag
\* written.
C19_TraversalTerminates ==
    /\ (trav.pc \in {"while", "for"}) ~> (trav.pc = "done")
    /\ [](\A n \in 1..Len(nodeObjs) :
             Cardinality(VisitsOf(n)) <= (IF n = trav.start THEN 2 ELSE 1))
    /\ [][(call'.op = "breadthFirstTraverse" /\ trav'.start = Nothing) =>
              /\ trav'.pc = "done"
              /\ trav'.log = <<>>
              /\ nodeObjs' = nodeObjs]_vars

\* A traversal whose cb never returned true has returned with its queue
\* empty, on a directed graph with the antiparallel edges a -> b and b -> a,
\* having visited the start twice
C19_Witness ==
    /\ trav.pc = "done" /\ trav.queue = <<>> /\ NeverStopped
    /\ trav.start # Nothing
    /\ isDirected(World, trav.g) /\ trav.edgeType = "outEdges"
    /\ Cardinality(VisitsOf(trav.start)) = 2
    /\ \E e1, e2 \in SeqRange(graphs[trav.g].edges) :
           /\ edgeObjs[e1].node1 = edgeObjs[e2].node2
           /\ edgeObjs[e1].node2 = edgeObjs[e2].node1
           /\ edgeObjs[e1].node1 # edgeObjs[e1].node2

\* The direction argument that selects an adjacency list
DirectionOf(edgeType) ==
    IF edgeType = "outEdges" THEN "out"
    ELSE IF edgeType = "inEdges" THEN "in" ELSE "none"

\* The calls of cb the traversal in flight makes when no cb starts a
\* traversal and every cb returns false
UnnestedLog ==
    breadthFirstTraverse(World, trav.g, NodeArg(trav.start),
                         DirectionOf(trav.edgeType)).t.log

VisitedNodes(log) == [k \in 1..Len(log) |-> log[k].node]

\* C20: a traversal started by a callback of a traversal in flight on the
\* same graph writes the __visited flags the outer traversal reads: when the
\* callback returns, the flags of the graph's nodes are those the inner
\* traversal set, not those the outer traversal had set; a traversal with
\* no nested call makes the calls of the traversal run alone, and with a
\* nested call the outer sequence of calls can differ from them.
C20_NestedTraversalSharesFlags ==
    /\ [][trav'.nested = trav.nested + 1 =>
              \A n \in NodesOf(trav.g) :
                  nodeObjs'[n].visited <=>
                      \/ \E k \in 2..Len(call'.rows) : call'.rows[k].node = n
                      \/ /\ ~trav'.log[Len(trav'.log)].ret
                         /\ trav'.log[Len(trav'.log)].node = n]_vars
    /\ []((Traversing /\ trav.pc = "done" /\ NeverStopped /\ trav.nested = 0)
              => VisitedNodes(trav.log) = VisitedNodes(UnnestedLog))

\* An outer traversal whose callbacks never returned true and started one
\* traversal has finished without visiting a node that is reachable from
\* its start
C20_Witness ==
    /\ Traversing /\ trav.pc = "done" /\ NeverStopped /\ trav.nested = 1
    /\ VisitedNodes(trav.log) # VisitedNodes(UnnestedLog)
    /\ \E n \in Reachable(trav.start, trav.edgeType) :
           \A k \in 1..Len(trav.log) : trav.log[k].node # n

====
